---- MODULE Spec2Model ----
(***************************************************************************)
(* Model of the Forklore.ai scoring engine, scripts/06_compute_scores.py:  *)
(* mention_score / compute_restaurant_scores (pure scoring of one          *)
(* restaurant's mentions) and recompute_all_scores (the batch job that     *)
(* fetches RedditMention, groups by place, scores, and replaces the        *)
(* PlaceAggregation table inside one psycopg2 transaction, then refreshes  *)
(* the materialized views in a second one).                                *)
(*                                                                         *)
(* Representation choices                                                  *)
(*  - instants are integers counting half-days, so timedelta.days is a     *)
(*    floor division by two and not the identity;                          *)
(*  - floats are fixed point: mention scores carry 5 decimals, and         *)
(*    round(x, 2) yields hundredths;                                       *)
(*  - a snippet is represented by its length in characters;                *)
(*  - reddit ids are token sequences such as <<"t3_", "a">>, so that       *)
(*    str.replace('t3_', '') is the removal of the prefix token;           *)
(*  - Python's None / dict results are records tagged by a `kind` field.   *)
(***************************************************************************)
EXTENDS Integers, Sequences, FiniteSets, TLC

VARIABLES
    now,                \* the wall clock, datetime.now(), in half-days
    RedditMention,      \* committed rows of table "RedditMention"
    PlaceAggregation,   \* committed rows of table "PlaceAggregation"
    views,              \* PlaceAggregation contents the materialized views were built from
    pc,                 \* position of recompute_all_scores
    failed_at,          \* pc at which the job raised, "" if it did not
    rows,               \* cur.fetchall()
    mentions_by_place,  \* ordered dict place_id -> list of mention dicts
    idx,                \* position of the loop over mentions_by_place.items()
    call_now,           \* local `now` of each compute_restaurant_scores call, by loop position
    aggregations,       \* list of aggregates that passed the evidence rule
    txn,                \* this connection's uncommitted view of PlaceAggregation
    txn_views,          \* views as rebuilt inside the open transaction
    arg_mentions,       \* argument `mentions` of direct compute_restaurant_scores calls
    ret                 \* the calls made so far: the clock they read and what they returned

vars == <<now, RedditMention, PlaceAggregation, views, pc, failed_at, rows,
          mentions_by_place, idx, call_now, aggregations, txn, txn_views,
          arg_mentions, ret>>

----------------------------------------------------------------------------
(* Scoring parameters *)

HALF_LIFE_DAYS == 45
TRENDING_WINDOW_DAYS == 90
MIN_THREADS == 2
MIN_TOTAL_UPVOTES == 10
MAX_TOP_SNIPPETS == 3
SNIPPET_CHARS == 200

(* Bounds of the model *)
MaxNow == 402        \* the clock runs from 400 (day 200) up to MaxNow
MaxTable == 3        \* rows in RedditMention
MaxGroup == 4        \* mentions passed to a direct compute_restaurant_scores call
MaxCalls == 2        \* direct calls on the same argument

----------------------------------------------------------------------------
(* Arithmetic helpers *)

Min(a, b) == IF a <= b THEN a ELSE b

RECURSIVE SqrtSearch(_, _, _)
SqrtSearch(n, lo, hi) ==
    IF lo >= hi THEN lo
    ELSE LET mid == (lo + hi + 1) \div 2
         IN  IF mid * mid <= n THEN SqrtSearch(n, mid, hi)
             ELSE SqrtSearch(n, lo, mid - 1)

\* math.sqrt(x) in thousandths, for an integer x >= 0
sqrt_milli(x) == SqrtSearch(x * 1000000, 0, 46000)

RECURSIVE Pow2(_)
Pow2(k) == IF k <= 0 THEN 1 ELSE 2 * Pow2(k - 1)

\* 10000 * 2^(-r/45) for r = 0 .. 44
DecayTable ==
    <<10000, 9847, 9697, 9548, 9402, 9259, 9117, 8978, 8841, 8706, 8572, 8441,
      8312, 8185, 8060, 7937, 7816, 7696, 7579, 7463, 7349, 7236, 7126, 7017,
      6910, 6804, 6700, 6598, 6497, 6397, 6300, 6203, 6108, 6015, 5923, 5833,
      5743, 5656, 5569, 5484, 5400, 5318, 5236, 5156, 5078>>

\* exp(-ln(2) * age_days / half_life) in ten-thousandths; above 10000 for a negative age
recency_decay(age_days) ==
    LET q == age_days \div HALF_LIFE_DAYS
        r == age_days % HALF_LIFE_DAYS
    IN  IF q >= 0 THEN DecayTable[r + 1] \div Pow2(q)
        ELSE DecayTable[r + 1] * Pow2(0 - q)

\* math.sqrt raises ValueError("math domain error") on a negative argument
SqrtRaises(comment_upvotes, post_upvotes) ==
    comment_upvotes + 1 < 0 \/ post_upvotes + 1 < 0

\* the score of one mention, in units of 10^-5
mention_score(comment_upvotes, post_upvotes, age_days, context_chars) ==
    LET upvote_weight == sqrt_milli(comment_upvotes + 1)
                         + (3 * sqrt_milli(post_upvotes + 1)) \div 10
        decay == recency_decay(age_days)
        context_boost == 1000 + Min(300, context_chars \div 10)
    IN  (((upvote_weight * decay) \div 100) * context_boost) \div 1000

\* round(x, 2): from units of 10^-5 to hundredths
round2(x) == (x + 500) \div 1000

\* (now - timestamp).days
age_in_days(t_now, timestamp) == (t_now - timestamp) \div 2

----------------------------------------------------------------------------
(* compute_restaurant_scores *)

None == [kind |-> "None"]

RECURSIVE SumScores(_, _)
\* sum(m["score"] for m in mentions)
SumScores(mentions, i) ==
    IF i > Len(mentions) THEN 0 ELSE mentions[i].score + SumScores(mentions, i + 1)

\* the evidence rule's early return
EvidenceRejects_and_as_or(unique_threads, total_upvotes) ==
    unique_threads < MIN_THREADS \/ total_upvotes < MIN_TOTAL_UPVOTES

EvidenceRejects(unique_threads, total_upvotes) ==
    unique_threads < MIN_THREADS /\ total_upvotes < MIN_TOTAL_UPVOTES

InTrendingWindow_strict(age_days) == age_days < TRENDING_WINDOW_DAYS

InTrendingWindow(age_days) == age_days <= TRENDING_WINDOW_DAYS

\* one iteration of `for mention in mentions`
LoopBody_iconic_in_else(acc, mention, t_now) ==
    LET age_days == age_in_days(t_now, mention.timestamp)
        score == mention_score(mention.score, 0, age_days, mention.snippet)
    IN  IF acc.raised \/ SqrtRaises(mention.score, 0)
        THEN [acc EXCEPT !.raised = TRUE]
        ELSE IF InTrendingWindow(age_days)
             THEN [acc EXCEPT !.trending_score = @ + score, !.mentions_90d = @ + 1]
             ELSE [acc EXCEPT !.iconic_score = @ + score]

LoopBody(acc, mention, t_now) ==
    LET age_days == age_in_days(t_now, mention.timestamp)
        \* mention.get("post_upvotes", 0): the dicts built by the job carry no such key
        score == mention_score(mention.score, 0, age_days, mention.snippet)
    IN  IF acc.raised \/ SqrtRaises(mention.score, 0)
        THEN [acc EXCEPT !.raised = TRUE]
        ELSE IF InTrendingWindow(age_days)
             THEN [acc EXCEPT !.iconic_score = @ + score,
                              !.trending_score = @ + score,
                              !.mentions_90d = @ + 1]
             ELSE [acc EXCEPT !.iconic_score = @ + score]

RECURSIVE ScoreLoop(_, _, _, _)
ScoreLoop(acc, mentions, i, t_now) ==
    IF i > Len(mentions) THEN acc
    ELSE ScoreLoop(LoopBody(acc, mentions[i], t_now), mentions, i + 1, t_now)

RECURSIVE InsertDesc(_, _, _)
\* place m after every element whose score is >= its own (a stable descending order)
InsertDesc(sorted, m, i) ==
    IF i > Len(sorted) THEN Append(sorted, m)
    ELSE IF sorted[i].score >= m.score THEN InsertDesc(sorted, m, i + 1)
         ELSE SubSeq(sorted, 1, i - 1) \o <<m>> \o SubSeq(sorted, i, Len(sorted))

RECURSIVE InsertBeforeEqual(_, _, _)
\* place m before the elements whose score equals its own
InsertBeforeEqual(sorted, m, i) ==
    IF i > Len(sorted) THEN Append(sorted, m)
    ELSE IF sorted[i].score > m.score THEN InsertBeforeEqual(sorted, m, i + 1)
         ELSE SubSeq(sorted, 1, i - 1) \o <<m>> \o SubSeq(sorted, i, Len(sorted))

RECURSIVE SortUnstableFrom(_, _, _)
SortUnstableFrom(mentions, i, sorted) ==
    IF i > Len(mentions) THEN sorted
    ELSE SortUnstableFrom(mentions, i + 1, InsertBeforeEqual(sorted, mentions[i], 1))

RECURSIVE SortDescFrom(_, _, _)
SortDescFrom(mentions, i, sorted) ==
    IF i > Len(mentions) THEN sorted
    ELSE SortDescFrom(mentions, i + 1, InsertDesc(sorted, mentions[i], 1))

\* a descending sort that reverses the supplied order of equal scores, as
\* sorted(mentions, key=score)[::-1] would
sorted_by_score_reversing_ties(mentions) == SortUnstableFrom(mentions, 1, <<>>)

\* sorted(mentions, key=lambda m: m["score"], reverse=True); Python's sort is
\* stable, also under reverse=True
sorted_by_score(mentions) == SortDescFrom(mentions, 1, <<>>)

\* id.replace(prefix, '')
strip_prefix(id, prefix) == SelectSeq(id, LAMBDA tok : tok # prefix)

permalink(m) ==
    <<"https://reddit.com/r/", m.subreddit, "/comments/">>
    \o strip_prefix(m.post_id, "t3_")
    \o (IF m.comment_id # <<>>
        THEN <<"/_/">> \o strip_prefix(m.comment_id, "t1_")
        ELSE <<>>)

top_snippet(m) ==
    [text |-> Min(m.snippet, SNIPPET_CHARS), score |-> m.score, permalink |-> permalink(m)]

MaxOf(S) == CHOOSE x \in S : \A y \in S : y <= x

compute_restaurant_scores(place_id, mentions, t_now) ==
    IF Len(mentions) = 0 THEN None
    ELSE
    LET unique_threads == Cardinality({mentions[i].post_id : i \in DOMAIN mentions})
        total_upvotes == SumScores(mentions, 1)
    IN  IF EvidenceRejects(unique_threads, total_upvotes) THEN None
        ELSE
        LET acc == ScoreLoop([iconic_score |-> 0, trending_score |-> 0,
                              mentions_90d |-> 0, raised |-> FALSE],
                             mentions, 1, t_now)
            ordered == sorted_by_score(mentions)
            top_mentions == SubSeq(ordered, 1, Min(MAX_TOP_SNIPPETS, Len(ordered)))
        IN  IF acc.raised THEN [kind |-> "ValueError"]
            ELSE [kind |-> "agg",
                  place_id |-> place_id,
                  iconic_score |-> round2(acc.iconic_score),
                  trending_score |-> round2(acc.trending_score),
                  mentions_90d |-> acc.mentions_90d,
                  unique_threads |-> unique_threads,
                  total_mentions |-> Len(mentions),
                  total_upvotes |-> total_upvotes,
                  last_seen |-> MaxOf({mentions[i].timestamp : i \in DOMAIN mentions}),
                  top_snippets |-> [i \in 1..Len(top_mentions) |-> top_snippet(top_mentions[i])]]

----------------------------------------------------------------------------
(* The database *)

\* placeId values in the order ORDER BY rm."placeId" yields them
PlaceIds == <<"place_a", "place_b">>

PlaceRank(p) == CHOOSE i \in DOMAIN PlaceIds : PlaceIds[i] = p

Row(place, post, comment, score, timestamp, snippet) ==
    [placeId |-> place, subreddit |-> "FoodNYC", postId |-> <<"t3_", post>>,
     commentId |-> IF comment = "" THEN <<>> ELSE <<"t1_", comment>>,
     score |-> score, timestamp |-> timestamp, snippet |-> snippet]

\* the rows the ingestion stage may have stored in "RedditMention"
MentionPool ==
    { Row("place_b", "b", "c1", 9, 219, 120),
      Row("place_b", "b", "c2", 1, 400, 0),
      Row("place_a", "a", "", 0, 310, 250),
      Row("place_a", "c", "c4", 0, 130, 4000),
      Row("place_a", "a", "c5", 0 - 2, 399, 40) }

\* the orders in which SELECT ... ORDER BY "placeId" may return a table
FetchOrders(table) ==
    LET n == Cardinality(table)
    IN  { s \in [1..n -> table] :
            /\ \A i, j \in 1..n : i # j => s[i] # s[j]
            /\ \A i, j \in 1..n :
                 i < j => PlaceRank(s[i].placeId) <= PlaceRank(s[j].placeId) }

mention_dict(row) ==
    [subreddit |-> row.subreddit, post_id |-> row.postId, comment_id |-> row.commentId,
     score |-> row.score, timestamp |-> row.timestamp, snippet |-> row.snippet]

\* grouping keyed by the thread instead of the place
GroupStep_by_thread(d, row) ==
    LET key == row.postId[2]
    IN  IF \E k \in DOMAIN d : d[k].place_id = key
        THEN [k \in DOMAIN d |->
                IF d[k].place_id = key
                THEN [d[k] EXCEPT !.mentions = Append(@, mention_dict(row))]
                ELSE d[k]]
        ELSE Append(d, [place_id |-> key, mentions |-> <<mention_dict(row)>>])

\* one iteration of `for row in rows`, on the ordered dict d
GroupStep(d, row) ==
    IF \E k \in DOMAIN d : d[k].place_id = row.placeId
    THEN [k \in DOMAIN d |->
            IF d[k].place_id = row.placeId
            THEN [d[k] EXCEPT !.mentions = Append(@, mention_dict(row))]
            ELSE d[k]]
    ELSE Append(d, [place_id |-> row.placeId, mentions |-> <<mention_dict(row)>>])

RECURSIVE GroupRows(_, _, _)
GroupRows(d, fetched, i) ==
    IF i > Len(fetched) THEN d ELSE GroupRows(GroupStep(d, fetched[i]), fetched, i + 1)

json_dumps(x) == <<"json", x>>

\* the parameter tuple of one INSERT INTO "PlaceAggregation"; the computedAt
\* column, which the server fills with NOW(), is not represented
InsertRow(agg) ==
    [placeId |-> agg.place_id,
     iconicScore |-> agg.iconic_score,
     trendingScore |-> agg.trending_score,
     mentions90d |-> agg.mentions_90d,
     uniqueThreads |-> agg.unique_threads,
     totalMentions |-> agg.total_mentions,
     totalUpvotes |-> agg.total_upvotes,
     lastSeen |-> agg.last_seen,
     topSnippets |-> json_dumps(agg.top_snippets)]

----------------------------------------------------------------------------
(* recompute_all_scores, statement by statement *)

JobIdle ==
    /\ RedditMention = {}
    /\ PlaceAggregation = {}
    /\ views = {}
    /\ pc = "idle"
    /\ failed_at = ""
    /\ rows = <<>>
    /\ mentions_by_place = <<>>
    /\ idx = 1
    /\ call_now = <<>>
    /\ aggregations = <<>>
    /\ txn = {}
    /\ txn_views = {}

Init ==
    /\ now = 400
    /\ JobIdle
    /\ arg_mentions = <<>>
    /\ ret = <<>>

\* the clock advances
Tick ==
    /\ now < MaxNow
    /\ now' = now + 1
    /\ UNCHANGED <<RedditMention, PlaceAggregation, views, pc, failed_at, rows,
                   mentions_by_place, idx, call_now, aggregations, txn,
                   txn_views, arg_mentions, ret>>

\* the ingestion stage stores a mention. The job reads "RedditMention" once,
\* in its SELECT, so a change during a job acts as a change after it
AddMention ==
    /\ pc = "idle"
    /\ Cardinality(RedditMention) < MaxTable
    /\ \E r \in MentionPool \ RedditMention : RedditMention' = RedditMention \cup {r}
    /\ UNCHANGED <<now, PlaceAggregation, views, pc, failed_at, rows,
                   mentions_by_place, idx, call_now, aggregations, txn,
                   txn_views, arg_mentions, ret>>

\* a mention is deleted from the table
RemoveMention ==
    /\ pc = "idle"
    /\ \E r \in RedditMention : RedditMention' = RedditMention \ {r}
    /\ UNCHANGED <<now, PlaceAggregation, views, pc, failed_at, rows,
                   mentions_by_place, idx, call_now, aggregations, txn,
                   txn_views, arg_mentions, ret>>

\* connect, SELECT ... ORDER BY "placeId", fetchall, group by place_id
FetchAndGroup ==
    /\ pc = "idle"
    /\ \E fetched \in FetchOrders(RedditMention) :
         /\ rows' = fetched
         /\ mentions_by_place' = GroupRows(<<>>, fetched, 1)
    /\ pc' = "computing"
    /\ UNCHANGED <<now, RedditMention, PlaceAggregation, views, failed_at, idx,
                   call_now, aggregations, txn, txn_views, arg_mentions, ret>>

\* one iteration of `for place_id, mentions in mentions_by_place.items()`
ComputeNext ==
    /\ pc = "computing"
    /\ idx <= Len(mentions_by_place)
    /\ LET item == mentions_by_place[idx]
           agg == compute_restaurant_scores(item.place_id, item.mentions, now)
       IN  /\ call_now' = Append(call_now, now)
           /\ IF agg.kind = "ValueError"
              THEN /\ pc' = "failed"
                   /\ failed_at' = "computing"
                   /\ UNCHANGED <<idx, aggregations>>
              ELSE /\ idx' = idx + 1
                   /\ aggregations' = IF agg.kind = "agg"
                                      THEN Append(aggregations, agg)
                                      ELSE aggregations
                   /\ UNCHANGED <<pc, failed_at>>
    /\ UNCHANGED <<now, RedditMention, PlaceAggregation, views, rows,
                   mentions_by_place, txn, txn_views, arg_mentions, ret>>

\* a DELETE that keeps the rows of places this job did not recompute
DeleteAll_only_recomputed ==
    /\ pc = "computing"
    /\ idx > Len(mentions_by_place)
    /\ txn' = { r \in txn : \A i \in DOMAIN aggregations :
                               aggregations[i].place_id # r.placeId }
    /\ pc' = "deleted"
    /\ UNCHANGED <<now, RedditMention, PlaceAggregation, views, failed_at, rows,
                   mentions_by_place, idx, call_now, aggregations,
                   txn_views, arg_mentions, ret>>

\* a DELETE on a connection in autocommit mode
DeleteAll_autocommit ==
    /\ pc = "computing"
    /\ idx > Len(mentions_by_place)
    /\ txn' = {}
    /\ PlaceAggregation' = {}
    /\ pc' = "deleted"
    /\ UNCHANGED <<now, RedditMention, views, failed_at, rows,
                   mentions_by_place, idx, call_now, aggregations,
                   txn_views, arg_mentions, ret>>

\* DELETE FROM "PlaceAggregation", inside the open transaction
DeleteAll ==
    /\ pc = "computing"
    /\ idx > Len(mentions_by_place)
    /\ txn' = {}
    /\ pc' = "deleted"
    /\ UNCHANGED <<now, RedditMention, PlaceAggregation, views, failed_at, rows,
                   mentions_by_place, idx, call_now, aggregations,
                   txn_views, arg_mentions, ret>>

\* `if aggregations: execute_batch(INSERT ...)`
InsertAll ==
    /\ pc = "deleted"
    /\ txn' = IF Len(aggregations) > 0
              THEN txn \cup { InsertRow(aggregations[i]) : i \in DOMAIN aggregations }
              ELSE txn
    /\ pc' = "inserted"
    /\ UNCHANGED <<now, RedditMention, PlaceAggregation, views, failed_at, rows,
                   mentions_by_place, idx, call_now, aggregations,
                   txn_views, arg_mentions, ret>>

\* the first conn.commit()
Commit ==
    /\ pc = "inserted"
    /\ PlaceAggregation' = txn
    /\ pc' = "committed"
    /\ UNCHANGED <<now, RedditMention, views, failed_at, rows,
                   mentions_by_place, idx, call_now, aggregations, txn,
                   txn_views, arg_mentions, ret>>

\* SELECT refresh_all_materialized_views(), which opens a new transaction
RefreshViews ==
    /\ pc = "committed"
    /\ txn_views' = PlaceAggregation
    /\ pc' = "refreshed"
    /\ UNCHANGED <<now, RedditMention, PlaceAggregation, views, failed_at, rows,
                   mentions_by_place, idx, call_now, aggregations, txn,
                   arg_mentions, ret>>

\* a job that closes the connection without the second commit
CommitRefresh_missing ==
    /\ pc = "refreshed"
    /\ txn_views' = views
    /\ pc' = "done"
    /\ UNCHANGED <<now, RedditMention, PlaceAggregation, views, failed_at, rows,
                   mentions_by_place, idx, call_now, aggregations, txn,
                   arg_mentions, ret>>

\* the second conn.commit(), cur.close(), conn.close()
CommitRefresh ==
    /\ pc = "refreshed"
    /\ views' = txn_views
    /\ pc' = "done"
    /\ UNCHANGED <<now, RedditMention, PlaceAggregation, failed_at, rows,
                   mentions_by_place, idx, call_now, aggregations, txn,
                   txn_views, arg_mentions, ret>>

\* a database statement or commit raises: the job dies and the server rolls
\* back whatever the connection had not committed
Fail ==
    /\ pc \in {"computing", "deleted", "inserted", "committed", "refreshed"}
    /\ pc = "computing" => idx > Len(mentions_by_place)
    /\ failed_at' = pc
    /\ pc' = "failed"
    /\ txn' = PlaceAggregation
    /\ txn_views' = views
    /\ UNCHANGED <<now, RedditMention, PlaceAggregation, views, rows,
                   mentions_by_place, idx, call_now, aggregations,
                   arg_mentions, ret>>

\* the process ends, and with it the job's local variables
Exit ==
    /\ pc \in {"done", "failed"}
    /\ pc' = "idle"
    /\ failed_at' = ""
    /\ rows' = <<>>
    /\ mentions_by_place' = <<>>
    /\ idx' = 1
    /\ call_now' = <<>>
    /\ aggregations' = <<>>
    /\ txn' = PlaceAggregation
    /\ txn_views' = views
    /\ UNCHANGED <<now, RedditMention, PlaceAggregation, views, arg_mentions, ret>>

Next ==
    \/ Tick
    \/ AddMention
    \/ RemoveMention
    \/ FetchAndGroup
    \/ ComputeNext
    \/ DeleteAll
    \/ InsertAll
    \/ Commit
    \/ RefreshViews
    \/ CommitRefresh
    \/ Fail
    \/ Exit

Spec == Init /\ [][Next]_vars

----------------------------------------------------------------------------
(* Direct calls of compute_restaurant_scores on one list of mentions *)

Mention(post, comment, score, timestamp, snippet) ==
    mention_dict(Row("place_a", post, comment, score, timestamp, snippet))

\* mentions of one place: a tie in upvotes, ages on both sides of the window,
\* a timestamp in the future and a downvoted comment
ScorePool ==
    { Mention("a", "k1", 5, 219, 50),
      Mention("a", "k2", 20, 310, 250),
      Mention("a", "k3", 4, 400, 0),
      Mention("b", "", 20, 130, 4000),
      Mention("a", "k5", 10, 407, 10),
      Mention("b", "k6", 0 - 2, 399, 40) }

ArgLists ==
    { s \in UNION { [1..n -> ScorePool] : n \in 0..MaxGroup } :
        \A i, j \in DOMAIN s : i # j => s[i] # s[j] }

InitScores ==
    /\ now = 400
    /\ JobIdle
    /\ arg_mentions \in ArgLists
    /\ ret = <<>>

\* compute_restaurant_scores("place_a", arg_mentions), which reads datetime.now()
CallCompute ==
    /\ Len(ret) < MaxCalls
    /\ ret' = Append(ret, [at |-> now,
                           value |-> compute_restaurant_scores("place_a", arg_mentions, now)])
    /\ UNCHANGED <<now, RedditMention, PlaceAggregation, views, pc, failed_at, rows,
                   mentions_by_place, idx, call_now, aggregations, txn,
                   txn_views, arg_mentions>>

NextScores ==
    \/ Tick
    \/ CallCompute

SpecScores == InitScores /\ [][NextScores]_vars

----------------------------------------------------------------------------
(* Vocabulary of the properties *)

RECURSIVE SetSum(_, _)
SetSum(S, f) ==
    IF S = {} THEN 0
    ELSE LET x == CHOOSE y \in S : TRUE IN f[x] + SetSum(S \ {x}, f)

\* indices of the fetched rows that belong to place p
RowsOf(p) == { i \in DOMAIN rows : rows[i].placeId = p }

FetchedPlaces == { rows[i].placeId : i \in DOMAIN rows }

ThreadsOf(p) == { rows[i].postId : i \in RowsOf(p) }

UpvotesOf(p) == SetSum(RowsOf(p), [i \in DOMAIN rows |-> rows[i].score])

AggregatedPlaces == { aggregations[i].place_id : i \in DOMAIN aggregations }

\* the loop over mentions_by_place has dealt with place p
Processed(p) ==
    \E k \in DOMAIN mentions_by_place : k < idx /\ mentions_by_place[k].place_id = p

\* the rows of place p in fetch order, as mention dicts
RECURSIVE OwnMentions(_, _)
OwnMentions(p, i) ==
    IF i > Len(rows) THEN <<>>
    ELSE (IF rows[i].placeId = p THEN <<mention_dict(rows[i])>> ELSE <<>>)
         \o OwnMentions(p, i + 1)

SnapshotOfRun == { InsertRow(aggregations[i]) : i \in DOMAIN aggregations }

Keys(table) == { r.placeId : r \in table }

\* the calls that returned an aggregate
AggCalls == { k \in DOMAIN ret : ret[k].value.kind = "agg" }

AgeAt(k, i) == (ret[k].at - arg_mentions[i].timestamp) \div 2

ScoreAt(k) ==
    [i \in DOMAIN arg_mentions |->
        mention_score(arg_mentions[i].score, 0, AgeAt(k, i), arg_mentions[i].snippet)]

RecentAt(k) == { i \in DOMAIN arg_mentions : AgeAt(k, i) <= 90 }

\* the position in arg_mentions of the mention a snippet was made from
PosOf(sn) == CHOOSE i \in DOMAIN arg_mentions : top_snippet(arg_mentions[i]) = sn

TopPositions(k) ==
    { PosOf(ret[k].value.top_snippets[i]) : i \in DOMAIN ret[k].value.top_snippets }

----------------------------------------------------------------------------
(* C1: once the job has dealt with an entity group, an aggregate of that      *)
(* entity is in the job's output if and only if the group has at least 2      *)
(* distinct threads or at least 10 upvotes in total.                          *)
C1_EvidenceGate ==
    \A p \in FetchedPlaces :
        Processed(p) =>
            (p \in AggregatedPlaces
                <=> (Cardinality(ThreadsOf(p)) >= 2 \/ UpvotesOf(p) >= 10))

\* a finished job that left out a group of 1 thread and 9 upvotes and kept a
\* group of 2 threads and 0 upvotes
C1_Witness ==
    /\ pc = "done"
    /\ \E p \in FetchedPlaces :
         Cardinality(ThreadsOf(p)) = 1 /\ UpvotesOf(p) = 9 /\ p \notin AggregatedPlaces
    /\ \E p \in FetchedPlaces :
         Cardinality(ThreadsOf(p)) = 2 /\ UpvotesOf(p) = 0 /\ p \in AggregatedPlaces

(* C2: every aggregate compute_restaurant_scores returns has                  *)
(* trending_score <= iconic_score.                                            *)
C2_TrendingWithinIconic ==
    \A k \in AggCalls : ret[k].value.trending_score <= ret[k].value.iconic_score

\* an aggregate over mentions inside and outside the window
C2_Witness ==
    \E k \in AggCalls :
        /\ 0 < ret[k].value.trending_score
        /\ ret[k].value.trending_score < ret[k].value.iconic_score
        /\ RecentAt(k) # {}
        /\ RecentAt(k) # DOMAIN arg_mentions

(* C3, as claimed: a call whose mentions include a timestamp after the clock  *)
(* it reads, or a negative upvote count, fails with a ValidationError and     *)
(* returns no aggregate.                                                      *)
C3_MalformedRejected ==
    \A k \in DOMAIN ret :
        (\E i \in DOMAIN arg_mentions :
            arg_mentions[i].timestamp > ret[k].at \/ arg_mentions[i].score < 0)
        => ret[k].value.kind = "ValidationError"

(* C4, as claimed: calls on the identical mention list return the identical   *)
(* result, whenever they execute.                                             *)
C4_SameInputSameOutput ==
    \A j, k \in DOMAIN ret : ret[j].value = ret[k].value

C6_Windows ==
    \A k \in AggCalls :
        LET v == ret[k].value
        IN  /\ v.iconic_score = round2(SetSum(DOMAIN arg_mentions, ScoreAt(k)))
            /\ v.trending_score = round2(SetSum(RecentAt(k), ScoreAt(k)))
            /\ v.mentions_90d = Cardinality(RecentAt(k))
            /\ v.total_mentions = Len(arg_mentions)
            /\ v.mentions_90d <= v.total_mentions

\* an aggregate over a mention exactly 90 days old and one older than that
C6_Witness ==
    \E k \in AggCalls :
        /\ \E i \in DOMAIN arg_mentions : AgeAt(k, i) = 90
        /\ \E i \in DOMAIN arg_mentions : AgeAt(k, i) > 90
        /\ ret[k].value.mentions_90d < ret[k].value.total_mentions

\* the same mentions scored a day later, when the 90 day old one is 91
C6_WitnessDayLater ==
    \E k \in AggCalls :
        /\ \E i \in DOMAIN arg_mentions : AgeAt(k, i) = 91
        /\ ret[k].value.mentions_90d > 0

(* C7: from the job's first commit on, and so when the job is done, the      *)
(* stored "PlaceAggregation" is exactly the set of this job's aggregates, one *)
(* row per placeId: every accepted place has its new row, no row of an        *)
(* earlier job survives, and a job over no mentions leaves the table empty.   *)
C7_SnapshotReplaced ==
    pc \in {"committed", "refreshed", "done"} =>
        /\ PlaceAggregation = SnapshotOfRun
        /\ Keys(PlaceAggregation) = AggregatedPlaces
        /\ \A r1, r2 \in PlaceAggregation : r1.placeId = r2.placeId => r1 = r2
        /\ \A p \in Keys(PlaceAggregation) :
             Cardinality(ThreadsOf(p)) >= 2 \/ UpvotesOf(p) >= 10
        /\ (rows = <<>> => PlaceAggregation = {})

\* a job has committed a non-empty snapshot while the views, built by the job
\* before it, still list a place that this job did not accept
C7_Witness ==
    /\ pc = "committed"
    /\ PlaceAggregation # {}
    /\ \E r \in views : r.placeId \notin Keys(PlaceAggregation)

\* a job over an empty "RedditMention" has emptied a table that had rows
C7_WitnessEmpty ==
    /\ pc = "committed"
    /\ rows = <<>>
    /\ views # {}
    /\ PlaceAggregation = {}

(* C8: grouping partitions the fetched rows: the dict has one key per         *)
(* fetched placeId, the group of a place holds exactly the rows of that       *)
(* place, in fetch order, so every row is in exactly one group; the output    *)
(* has at most one aggregate per place, and the aggregate of a place is what  *)
(* compute_restaurant_scores yields on that place's own rows.                 *)
C8_GroupsPartition ==
    pc # "idle" =>
        /\ { mentions_by_place[k].place_id : k \in DOMAIN mentions_by_place } = FetchedPlaces
        /\ \A j, k \in DOMAIN mentions_by_place :
             mentions_by_place[j].place_id = mentions_by_place[k].place_id => j = k
        /\ \A k \in DOMAIN mentions_by_place :
             mentions_by_place[k].mentions = OwnMentions(mentions_by_place[k].place_id, 1)
        /\ SetSum(DOMAIN mentions_by_place,
                  [k \in DOMAIN mentions_by_place |-> Len(mentions_by_place[k].mentions)])
             = Len(rows)
        /\ \A i, j \in DOMAIN aggregations :
             aggregations[i].place_id = aggregations[j].place_id => i = j
        /\ \A i \in DOMAIN aggregations :
             \E k \in DOMAIN call_now :
                /\ mentions_by_place[k].place_id = aggregations[i].place_id
                /\ aggregations[i] =
                     compute_restaurant_scores(aggregations[i].place_id,
                                               OwnMentions(aggregations[i].place_id, 1),
                                               call_now[k])

\* a finished job over rows of two places, one of them with two rows
C8_Witness ==
    /\ pc = "done"
    /\ Len(mentions_by_place) = 2
    /\ Len(rows) = 3
    /\ Len(aggregations) >= 1

(* C9: the committed "PlaceAggregation" changes in one step only, the job's   *)
(* first commit, and then to the job's complete snapshot; and a job that      *)
(* fails before that commit leaves the committed table as it was.             *)
C9_AtomicReplace ==
    [][ /\ (PlaceAggregation' # PlaceAggregation
              => /\ pc = "inserted"
                 /\ pc' = "committed"
                 /\ PlaceAggregation' = SnapshotOfRun)
        /\ ((pc' = "failed" /\ failed_at' \in {"computing", "deleted", "inserted"})
              => PlaceAggregation' = PlaceAggregation) ]_vars

\* a job failed after its INSERT and before its commit, and the committed
\* table still holds the earlier snapshot, which is not this job's
C9_Witness ==
    /\ pc = "failed"
    /\ failed_at = "inserted"
    /\ PlaceAggregation # {}
    /\ PlaceAggregation # SnapshotOfRun

(* C10: the views change in one step only, the job's second commit, which     *)
(* comes after the snapshot's commit, and they are then built from the        *)
(* committed snapshot of this job; a job that fails after the first commit    *)
(* keeps the new snapshot committed and leaves the views as they were.        *)
C10_RefreshAfterCommit ==
    [][ /\ (views' # views => pc = "refreshed" /\ pc' = "done")
        /\ (pc' = "done" => views' = PlaceAggregation' /\ PlaceAggregation' = SnapshotOfRun')
        /\ ((pc' = "failed" /\ failed_at' \in {"committed", "refreshed"})
              => /\ PlaceAggregation' = SnapshotOfRun'
                 /\ views' = views) ]_vars

\* the refresh failed: the new snapshot is committed, the views are the old ones
C10_Witness ==
    /\ pc = "failed"
    /\ failed_at \in {"committed", "refreshed"}
    /\ PlaceAggregation = SnapshotOfRun
    /\ views # PlaceAggregation

\* a job reached its end with views rebuilt from a changed snapshot
C10_WitnessDone ==
    /\ pc = "done"
    /\ views = PlaceAggregation
    /\ views # {}

====
